---------------------------- MODULE Spec2Model ----------------------------
(***************************************************************************)
(* Shadow renderer of the engine (src/unnamed/part_001, constants in       *)
(* src/unnamed/part_002): split distances of the cascades, culling of the  *)
(* shadow casters, render state around a light's shadow pass, blur weights.*)
(*                                                                         *)
(* Numbers.  Distances and coordinates are fixed-point integers: one world *)
(* unit is Unit steps, so that i / numCascades, the cascade distribution,  *)
(* the halving of a frustum slice and the 0.1 margins are exact.  Roots    *)
(* that are irrational are either excluded by the choice of inputs (pow)   *)
(* or rounded to the grid (sqrt), as a float rounds them.                  *)
(***************************************************************************)
EXTENDS Integers, Sequences, FiniteSets, TLC

VARIABLES
    light,            \* the light: configuration and shadow state
    renderData,       \* light.getRenderData(camera, face): face -> LightRenderData
    meshInstances,    \* the scene's shadow casters: id -> mesh instance
    visibleSceneAabb, \* the module-level scratch box of cullDirectional
    camera,           \* the viewer camera
    device,           \* the graphics device: capabilities and render state
    scene,            \* forwardRenderer.scene and the renderer's frame counters
    lastOp,           \* the last operation run, its arguments and what it did
    blurVsmShader,    \* the blur shaders created so far
    blurVsmWeights    \* this.blurVsmWeights: filter size -> weight array

vars == <<light, renderData, meshInstances, visibleSceneAabb, camera, device, scene,
          lastOp, blurVsmShader, blurVsmWeights>>

cullVars == <<renderData, meshInstances, visibleSceneAabb, camera>>

blurVars == <<blurVsmShader, blurVsmWeights>>

---------------------------------------------------------------------------
(* Bounds of the model *)

MaxCascades == 3
DistDen == 2
MaxNear == 2
MaxFar == 16
MaxFilterSize == 26
MaxBlurShaders == 2
FrameBudget == 1
One == 10000

---------------------------------------------------------------------------
(* Program constants, src/unnamed/part_002 *)

LIGHTTYPE_DIRECTIONAL == 0
LIGHTTYPE_OMNI == 1
LIGHTTYPE_SPOT == 2

SHADOW_PCF3 == 0
SHADOW_VSM8 == 1
SHADOW_VSM16 == 2
SHADOW_VSM32 == 3
SHADOW_PCF5 == 4
SHADOW_PCF1 == 5
SHADOW_COUNT == 6

BLUR_BOX == 0
BLUR_GAUSSIAN == 1

SHADOWUPDATE_NONE == 0
SHADOWUPDATE_THISFRAME == 1
SHADOWUPDATE_REALTIME == 2

---------------------------------------------------------------------------
(* Fixed-point arithmetic *)

RECURSIVE Gcd(_, _)
Gcd(a, b) == IF b = 0 THEN a ELSE Gcd(b, a % b)

RECURSIVE LcmUpTo(_)
LcmUpTo(n) == IF n <= 1 THEN 1 ELSE (LcmUpTo(n - 1) * n) \div Gcd(LcmUpTo(n - 1), n)

\* steps per world unit: divisible by every cascade count, by the denominator
\* of the cascade distribution, by 2 (slice centre) and by 10 (0.1 margins)
Unit == 20 * LcmUpTo(MaxCascades) * DistDen

RECURSIVE IPow(_, _)
IPow(b, e) == IF e = 0 THEN 1 ELSE b * IPow(b, e - 1)

Min2(a, b) == IF a < b THEN a ELSE b
Max2(a, b) == IF a > b THEN a ELSE b

---------------------------------------------------------------------------
(* Vectors, axis-aligned rotations, boxes *)

Vec(x, y, z) == <<x, y, z>>
VAdd(a, b) == <<a[1] + b[1], a[2] + b[2], a[3] + b[3]>>
VSub(a, b) == <<a[1] - b[1], a[2] - b[2], a[3] - b[3]>>
VScale(a, k) == <<a[1] * k, a[2] * k, a[3] * k>>
VNeg(a) == VScale(a, -1)
Dot(a, b) == a[1] * b[1] + a[2] * b[2] + a[3] * b[3]
LengthSq(a) == Dot(a, a)

\* a rotation is the world-space image of the local x, y and z axes
Rot(x, y, z) == [x |-> x, y |-> y, z |-> z]
RotIdentity == Rot(Vec(1, 0, 0), Vec(0, 1, 0), Vec(0, 0, 1))

\* GraphNode.rotateLocal(-90, 0, 0): local y becomes -z, local z becomes y
RotateLocalMinus90X(r) == Rot(r.x, VNeg(r.z), r.y)

\* GraphNode.right / up / forward
NodeRight(r) == r.x
NodeUp(r) == r.y
NodeForward(r) == VNeg(r.z)

\* floor and ceiling of a / b for b > 0
FloorDiv(a, b) == a \div b
CeilDiv(a, b) == 0 - ((0 - a) \div b)

\* the square root, rounded down to the grid
RECURSIVE SqrtSearch(_, _, _)
SqrtSearch(x, lo, hi) ==
    IF lo >= hi THEN lo
    ELSE LET mid == (lo + hi + 1) \div 2
         IN  IF mid * mid <= x THEN SqrtSearch(x, mid, hi) ELSE SqrtSearch(x, lo, mid - 1)

Sqrt(x) == SqrtSearch(x, 0, Min2(x, 46340))

SetMin(S) == CHOOSE m \in S : \A x \in S : m <= x
SetMax(S) == CHOOSE m \in S : \A x \in S : m >= x

\* BoundingBox: min and max corner
Aabb(mn, mx) == [min |-> mn, max |-> mx]
AabbAdd(a, b) ==
    Aabb([k \in 1..3 |-> Min2(a.min[k], b.min[k])], [k \in 1..3 |-> Max2(a.max[k], b.max[k])])
AabbCorners(a) ==
    { <<x, y, z>> : x \in {a.min[1], a.max[1]}, y \in {a.min[2], a.max[2]},
                    z \in {a.min[3], a.max[3]} }

\* new BoundingBox(): centre 0, half extents 0.5
DefaultAabb == Aabb(Vec(0 - Unit \div 2, 0 - Unit \div 2, 0 - Unit \div 2),
                    Vec(Unit \div 2, Unit \div 2, Unit \div 2))

\* a point in the view space of a camera node at pos with rotation rot
ToView(pos, rot, p) ==
    LET d == VSub(p, pos) IN Vec(Dot(d, rot.x), Dot(d, rot.y), Dot(d, rot.z))

---------------------------------------------------------------------------
(* getDepthRange *)

GetDepthRange(camPos, camRot, aabbMin, aabbMax) ==
    LET zs == { ToView(camPos, camRot, c)[3] : c \in AabbCorners(Aabb(aabbMin, aabbMax)) }
    IN  [min |-> SetMin(zs), max |-> SetMax(zs)]

---------------------------------------------------------------------------
(* Camera frustums and the visibility test of a mesh instance *)

\* Camera frustum as updateCameraFrustum leaves it: the camera's node, its
\* clip planes and either the orthographic half height or tan(fov / 2)
\* as the fraction tanNum / tanDen
OrthoFrustum(pos, rot, near, far, orthoHeight) ==
    [ortho |-> TRUE, pos |-> pos, rot |-> rot, near |-> near, far |-> far,
     h |-> orthoHeight, tanNum |-> 0, tanDen |-> 1]

PerspFrustum(pos, rot, near, far, tanNum, tanDen) ==
    [ortho |-> FALSE, pos |-> pos, rot |-> rot, near |-> near, far |-> far,
     h |-> 0, tanNum |-> tanNum, tanDen |-> tanDen]

NoFrustum == OrthoFrustum(Vec(0, 0, 0), RotIdentity, 0, 0, 0)

\* the extent of a box in view space
ViewExtent(fr, box) ==
    LET pts == { ToView(fr.pos, fr.rot, c) : c \in AabbCorners(box) }
    IN  [k \in 1..3 |-> [lo |-> SetMin({ q[k] : q \in pts }), hi |-> SetMax({ q[k] : q \in pts })]]

\* the box meets the frustum: no plane of the frustum has the whole box
\* on its outer side (the camera looks down its negative z)
BoxMeetsFrustum(fr, box) ==
    LET e == ViewExtent(fr, box)
        dLo == 0 - e[3].hi     \* nearest depth of the box in front of the camera
        dHi == 0 - e[3].lo
    IN  /\ dHi >= fr.near
        /\ dLo <= fr.far
        /\ IF fr.ortho
           THEN /\ e[1].lo <= fr.h /\ e[1].hi >= 0 - fr.h
                /\ e[2].lo <= fr.h /\ e[2].hi >= 0 - fr.h
           ELSE /\ e[1].lo * fr.tanDen <= dHi * fr.tanNum
                /\ (0 - e[1].hi) * fr.tanDen <= dHi * fr.tanNum
                /\ e[2].lo * fr.tanDen <= dHi * fr.tanNum
                /\ (0 - e[2].hi) * fr.tanDen <= dHi * fr.tanNum

\* MeshInstance._isVisible(camera)
IsVisible(meshInstance, fr) == BoxMeetsFrustum(fr, meshInstance.aabb)

---------------------------------------------------------------------------
(* generateSplitDistances *)

\* base ** (num / den) for base = far / near, times near: the y with
\* (y / near) ^ den = (far / near) ^ num.  Defined on the inputs for which
\* that y is a whole number of units.
HasPow(near, far, num, den) ==
    \E y \in near..far : IPow(y, den) * IPow(near, num) = IPow(near, den) * IPow(far, num)

NearTimesPow(near, far, num, den) ==
    CHOOSE y \in near..far : IPow(y, den) * IPow(near, num) = IPow(near, den) * IPow(far, num)

\* math.clamp / math.lerp with alpha = alphaNum / DistDen
Clamp(v, lo, hi) == IF v >= hi THEN hi ELSE IF v <= lo THEN lo ELSE v

Lerp(a, b, alphaNum) == a + ((b - a) * Clamp(alphaNum, 0, DistDen)) \div DistDen

SplitDistReversed(l, nearDist, farDist, i) ==
    LET j == l.numCascades - i
        linearDist == nearDist + ((farDist - nearDist) * j) \div l.numCascades
        logDist == Unit * NearTimesPow(nearDist \div Unit, farDist \div Unit, j, l.numCascades)
    IN  Lerp(linearDist, logDist, l.cascadeDistribution)

SplitDistSwapped(l, nearDist, farDist, i) ==
    LET linearDist == nearDist + ((farDist - nearDist) * i) \div l.numCascades
        logDist == Unit * NearTimesPow(nearDist \div Unit, farDist \div Unit, i, l.numCascades)
    IN  Lerp(logDist, linearDist, l.cascadeDistribution)

\* the value written to _shadowCascadeDistances[i - 1], 1 <= i < numCascades
SplitDist(l, nearDist, farDist, i) ==
    LET linearDist == nearDist + ((farDist - nearDist) * i) \div l.numCascades
        logDist == Unit * NearTimesPow(nearDist \div Unit, farDist \div Unit, i, l.numCascades)
    IN  Lerp(linearDist, logDist, l.cascadeDistribution)

SplitDistancesNoFill(l, nearDist, farDist) ==
    [k \in 1..MaxCascades |->
        IF k < l.numCascades THEN SplitDist(l, nearDist, farDist, k)
        ELSE l._shadowCascadeDistances[k]]

\* the array after the call; index k here is index k - 1 of the code
SplitDistances(l, nearDist, farDist) ==
    [k \in 1..MaxCascades |->
        IF k < l.numCascades THEN SplitDist(l, nearDist, farDist, k) ELSE farDist]

\* the (near, far) pairs, in whole units, the model calls it with
ValidSplitInput(n, f, c) ==
    /\ n > 0
    /\ f > n
    /\ \A i \in 1..(c - 1) : HasPow(n, f, i, c)

GenerateSplitDistances(nearDist, farDist) ==
    /\ light' = [light EXCEPT !._shadowCascadeDistances = SplitDistances(light, nearDist, farDist)]
    /\ lastOp' = [op |-> "generateSplitDistances", nearDist |-> nearDist, farDist |-> farDist]
    /\ UNCHANGED <<blurVars, cullVars, device, scene>>

---------------------------------------------------------------------------
(* gauss / gaussWeights.  A weight is a fixed-point number, One steps to 1,
   or NaN. *)

maxBlurSize == 25

NaN == [nan |-> TRUE, v |-> 0]
Num(v) == [nan |-> FALSE, v |-> v]

FAdd(a, b) == IF a.nan \/ b.nan THEN NaN ELSE Num(a.v + b.v)

\* a / b of two non-negative numbers: 0 / 0 and NaN operands give NaN
FDiv(a, b) ==
    IF a.nan \/ b.nan \/ (a.v = 0 /\ b.v = 0) THEN NaN
    ELSE IF b.v = 0 THEN Num(One * One)
    ELSE Num((a.v * One) \div b.v)

\* One * e^(-u / One) for 0 <= u <= One, by its Taylor series
RECURSIVE ExpSeries(_, _, _, _)
ExpSeries(u, j, term, acc) ==
    IF j > 8 THEN acc
    ELSE LET t == (0 - (term * u)) \div (One * j)
         IN  ExpSeries(u, j + 1, t, acc + t)

Square(v) == (v * v) \div One

\* One * e^(-num / den), num / den <= 8: the eighth power of e^(-num / (8 den))
ExpNeg(num, den) ==
    LET u == (num * One) \div (den * 8)
        e == ExpSeries(u, 1, One, One)
    IN  Square(Square(Square(e)))

\* gauss(x, sigma) with x = xTwice / 2 and sigma = sigmaSix / 6:
\* Math.exp(-(x * x) / (2.0 * sigma * sigma))
Gauss(xTwice, sigmaSix) ==
    IF sigmaSix = 0
    THEN IF xTwice = 0 THEN NaN ELSE Num(0)
    ELSE Num(ExpNeg(9 * xTwice * xTwice, 2 * sigmaSix * sigmaSix))

RECURSIVE FSum(_, _)
FSum(values, n) == IF n = 0 THEN Num(0) ELSE FAdd(FSum(values, n - 1), values[n])

\* entry i here is values[i - 1] of the code
GaussWeights(kernelSize) ==
    LET k == IF kernelSize > maxBlurSize THEN maxBlurSize ELSE kernelSize
        values == [i \in 1..k |-> Gauss(2 * (i - 1) - (k - 1), k - 1)]
        sum == FSum(values, k)
    IN  [i \in 1..k |-> FDiv(values[i], sum)]

\* the weight arrays of all filter sizes of the model, computed once
GaussWeightsOfSize == [k \in 1..MaxFilterSize |-> GaussWeights(k)]

---------------------------------------------------------------------------
(* getVsmBlurShader *)

BlurShaderKeys == BOOLEAN \X {BLUR_BOX, BLUR_GAUSSIAN} \X (1..MaxFilterSize)

\* the caches after getVsmBlurShader(isVsm8, blurMode, filterSize)
BlurShadersAfter(shaders, isVsm8, blurMode, filterSize) ==
    shaders \cup {<<isVsm8, blurMode, filterSize>>}

BlurWeightsAfter(shaders, weights, isVsm8, blurMode, filterSize) ==
    IF <<isVsm8, blurMode, filterSize>> \in shaders THEN weights
    ELSE [k \in (DOMAIN weights) \cup {filterSize} |->
             IF k = filterSize THEN GaussWeightsOfSize[filterSize] ELSE weights[k]]

GetVsmBlurShader(isVsm8, blurMode, filterSize) ==
    /\ blurVsmWeights' =
           BlurWeightsAfter(blurVsmShader, blurVsmWeights, isVsm8, blurMode, filterSize)
    /\ blurVsmShader' = BlurShadersAfter(blurVsmShader, isVsm8, blurMode, filterSize)

---------------------------------------------------------------------------
(* The data the shadow renderer works on *)

Faces == 1..Max2(6, MaxCascades)

CascadeConfigs ==
    [numCascades : 1..MaxCascades, cascadeDistribution : 0..DistDen]

\* Light._isPcf / Light._isVsm, set with the shadow type
IsPcf(shadowType) == shadowType \in {SHADOW_PCF1, SHADOW_PCF3, SHADOW_PCF5}
IsVsm(shadowType) == shadowType >= SHADOW_VSM8 /\ shadowType <= SHADOW_VSM32

\* Light.numShadowFaces
NumShadowFaces(l) ==
    IF l._type = LIGHTTYPE_DIRECTIONAL THEN l.numCascades
    ELSE IF l._type = LIGHTTYPE_OMNI THEN 6
    ELSE 1

\* a light as the scene hands it over; cfg gives what the model varies
NewLight(cfg) ==
    [ _type |-> cfg._type,
      _shadowType |-> cfg._shadowType,
      enabled |-> TRUE,
      castShadows |-> TRUE,
      shadowUpdateMode |-> cfg.shadowUpdateMode,
      visibleThisFrame |-> FALSE,
      _shadowMap |-> "null",
      numCascades |-> cfg.numCascades,
      cascadeDistribution |-> cfg.cascadeDistribution,
      _shadowCascadeDistances |-> [k \in 1..MaxCascades |-> 0],
      shadowDistance |-> cfg.shadowDistance,
      _shadowResolution |-> cfg._shadowResolution,
      shadowBias |-> cfg.shadowBias,
      _vsmBlurSize |-> cfg._vsmBlurSize,
      vsmBlurMode |-> cfg.vsmBlurMode,
      attenuationEnd |-> 25 * Unit,
      outerConeTan |-> <<1, 1>>,
      position |-> cfg.position,
      rotation |-> cfg.rotation ]

DefaultLightConfig ==
    [ _type |-> LIGHTTYPE_DIRECTIONAL, _shadowType |-> SHADOW_PCF3,
      shadowUpdateMode |-> SHADOWUPDATE_REALTIME,
      numCascades |-> 1, cascadeDistribution |-> 0, shadowDistance |-> 4 * Unit,
      _shadowResolution |-> 4, shadowBias |-> 1, _vsmBlurSize |-> 1,
      vsmBlurMode |-> BLUR_GAUSSIAN, position |-> Vec(0, 0, 0), rotation |-> RotIdentity ]

\* LightCamera.create: the six cameras of an omni light look along the six
\* axis directions; the others are oriented by the culling
FaceRotation(type, face) ==
    IF type # LIGHTTYPE_OMNI THEN RotIdentity
    ELSE CASE face = 1 -> Rot(Vec(0, 0, -1), Vec(0, 1, 0), Vec(1, 0, 0))
           [] face = 2 -> Rot(Vec(0, 0, 1), Vec(0, 1, 0), Vec(-1, 0, 0))
           [] face = 3 -> Rot(Vec(1, 0, 0), Vec(0, 0, -1), Vec(0, 1, 0))
           [] face = 4 -> Rot(Vec(1, 0, 0), Vec(0, 0, 1), Vec(0, -1, 0))
           [] face = 5 -> Rot(Vec(1, 0, 0), Vec(0, 1, 0), Vec(0, 0, 1))
           [] OTHER -> Rot(Vec(-1, 0, 0), Vec(0, 1, 0), Vec(0, 0, -1))

\* ShadowRenderer.createShadowCamera
CreateShadowCamera(shadowType, type, face) ==
    [ position |-> Vec(0, 0, 0),
      rotation |-> FaceRotation(type, face),
      nearClip |-> 0,
      farClip |-> 0,
      orthoHeight |-> 0,
      fovTan |-> <<1, 1>>,
      frustum |-> NoFrustum,
      renderTarget |-> [map |-> "null", index |-> 0],
      clearColor |-> IF IsVsm(shadowType) THEN 0 ELSE 1,
      clearColorBuffer |-> TRUE,
      clearDepthBuffer |-> TRUE,
      clearStencilBuffer |-> FALSE ]

\* LightRenderData of one face
NewRenderData(l, face) ==
    [ shadowCamera |-> CreateShadowCamera(l._shadowType, l._type, face),
      visibleCasters |-> <<>> ]

\* a mesh instance that can cast a shadow
NewMeshInstance(box, cull, skinned, opChan) ==
    [ aabb |-> box,
      cull |-> cull,
      visibleThisFrame |-> FALSE,
      skinInstance |-> skinned,
      opacityMap |-> opChan # "",
      opacityMapChannel |-> opChan,
      keyDepth |-> 0,
      _shader |-> {} ]

NoOp == [op |-> "none"]

---------------------------------------------------------------------------
(* getDepthKey, cullShadowCasters *)

opChanId(ch) ==
    CASE ch = "r" -> 1 [] ch = "g" -> 2 [] ch = "b" -> 3 [] ch = "a" -> 4 [] OTHER -> 0

GetDepthKey(meshInstance) ==
    LET x == IF meshInstance.skinInstance THEN 10 ELSE 0
        y == IF meshInstance.opacityMap /\ meshInstance.opacityMapChannel # ""
             THEN opChanId(meshInstance.opacityMapChannel) ELSE 0
    IN  x + y

\* forwardRenderer.depthSortCompare(a, b) < 0: a goes before b
DepthSortBefore(mi, a, b) == mi[b].keyDepth - mi[a].keyDepth < 0

\* Array.prototype.sort with depthSortCompare: a stable insertion
RECURSIVE SortInsert(_, _, _)
SortInsert(mi, sorted, e) ==
    IF sorted = <<>> THEN <<e>>
    ELSE IF DepthSortBefore(mi, e, sorted[Len(sorted)])
         THEN Append(SortInsert(mi, SubSeq(sorted, 1, Len(sorted) - 1), e), sorted[Len(sorted)])
         ELSE Append(sorted, e)

RECURSIVE DepthSort(_, _)
DepthSort(mi, list) ==
    IF list = <<>> THEN <<>>
    ELSE SortInsert(mi, DepthSort(mi, SubSeq(list, 1, Len(list) - 1)), list[Len(list)])

\* the mutant: the cull flag of the instance is not looked at
CullShadowCastersAlwaysTest(mi, drawCalls, visible, fr) ==
    LET kept == SelectSeq(drawCalls, LAMBDA id : IsVisible(mi[id], fr))
        seen == { kept[k] : k \in 1..Len(kept) }
    IN  [ visible |-> DepthSort(mi, kept),
          mi |-> [id \in DOMAIN mi |->
                    IF id \in seen THEN [mi[id] EXCEPT !.visibleThisFrame = TRUE] ELSE mi[id]] ]

\* the mutant: the visible array keeps its old length
CullShadowCastersKeepsLength(mi, drawCalls, visible, fr) ==
    LET kept == SelectSeq(drawCalls, LAMBDA id : ~mi[id].cull \/ IsVisible(mi[id], fr))
        seen == { kept[k] : k \in 1..Len(kept) }
    IN  [ visible |-> DepthSort(mi, kept \o SubSeq(visible, Len(kept) + 1, Len(visible))),
          mi |-> [id \in DOMAIN mi |->
                    IF id \in seen THEN [mi[id] EXCEPT !.visibleThisFrame = TRUE] ELSE mi[id]] ]

\* cullShadowCasters(meshInstances, visible, camera): the new visible array
\* and the mesh instances with their visibleThisFrame flags
CullShadowCasters(mi, drawCalls, visible, fr) ==
    LET kept == SelectSeq(drawCalls, LAMBDA id : ~mi[id].cull \/ IsVisible(mi[id], fr))
        seen == { kept[k] : k \in 1..Len(kept) }
    IN  [ visible |-> DepthSort(mi, kept),
          mi |-> [id \in DOMAIN mi |->
                    IF id \in seen THEN [mi[id] EXCEPT !.visibleThisFrame = TRUE] ELSE mi[id]] ]

---------------------------------------------------------------------------
(* cullLocal *)

\* lightTextureAtlas.shadowAtlasResolution, .shadowEdgePixels and the z
\* (width) of the light's atlasViewport as the fraction 1 / AtlasViewportDen
ShadowAtlasResolution == 2048
ShadowEdgePixels == 3
AtlasViewportDen == 4

\* tan(fov / 2) of the shadow camera of a local light
LocalFovTan(l, isClustered) ==
    IF l._type = LIGHTTYPE_SPOT THEN l.outerConeTan
    ELSE IF isClustered
         THEN <<ShadowAtlasResolution + 6 * ShadowEdgePixels * AtlasViewportDen,
                ShadowAtlasResolution>>
         ELSE <<1, 1>>

\* the mutant: a spot light is given the faces of a cube map as well
CullLocalFaceCountCube(l) == 6

CullLocalFaceCount(l) == IF l._type = LIGHTTYPE_SPOT THEN 1 ELSE 6

CullLocalFace(l, isClustered, drawCalls, st, face) ==
    LET cam0 == st.rd[face].shadowCamera
        rot == IF l._type = LIGHTTYPE_SPOT THEN RotateLocalMinus90X(l.rotation)
               ELSE cam0.rotation
        tn == LocalFovTan(l, isClustered)
        near == l.attenuationEnd \div 1000
        far == l.attenuationEnd
        fr == PerspFrustum(l.position, rot, near, far, tn[1], tn[2])
        cam == [cam0 EXCEPT !.nearClip = near, !.farClip = far, !.position = l.position,
                            !.rotation = rot, !.fovTan = tn, !.frustum = fr]
        res == CullShadowCasters(st.mi, drawCalls, st.rd[face].visibleCasters, fr)
    IN  [ rd |-> [st.rd EXCEPT ![face] = [shadowCamera |-> cam, visibleCasters |-> res.visible]],
          mi |-> res.mi,
          aabb |-> st.aabb ]

RECURSIVE CullLocalFaces(_, _, _, _, _)
CullLocalFaces(l, isClustered, drawCalls, st, n) ==
    IF n = 0 THEN st
    ELSE CullLocalFace(l, isClustered, drawCalls,
                       CullLocalFaces(l, isClustered, drawCalls, st, n - 1), n)

\* the mutant: a map is allocated in clustered mode as well
CreatesLocalShadowMapAnyMode(l, isClustered) == l._shadowMap = "null"

\* cullLocal calls ShadowMap.create
CreatesLocalShadowMap(l, isClustered) == ~isClustered /\ l._shadowMap = "null"

CullLocal(drawCalls) ==
    LET isClustered == scene.clusteredLightingEnabled
        created == CreatesLocalShadowMap(light, isClustered)
        map == IF created THEN "own" ELSE light._shadowMap
        faceCount == CullLocalFaceCount(light)
        st == CullLocalFaces(light, isClustered, drawCalls,
                  [rd |-> renderData, mi |-> meshInstances, aabb |-> visibleSceneAabb],
                  faceCount)
    IN  /\ light' = [light EXCEPT !.visibleThisFrame = TRUE, !._shadowMap = map]
        /\ renderData' = st.rd
        /\ meshInstances' = st.mi
        /\ lastOp' = [op |-> "cullLocal", drawCalls |-> drawCalls, faceCount |-> faceCount,
                      created |-> created]
        /\ UNCHANGED <<visibleSceneAabb, camera, device, scene, blurVars>>

---------------------------------------------------------------------------
(* cullDirectional *)

FarAway == 1000000
FarClipAll == 2000000

\* Frustum.getPoints(camera, near, far): the eight corners of the slice of
\* the viewer's frustum between near and far, in camera space
FrustumPoints(cam, near, far) ==
    LET yn == (near * cam.fovTan[1]) \div cam.fovTan[2]
        yf == (far * cam.fovTan[1]) \div cam.fovTan[2]
        sx == <<1, 1, -1, -1>>
        sy == <<1, -1, -1, 1>>
    IN  [i \in 1..8 |->
            IF i <= 4 THEN Vec(sx[i] * yn * cam.aspectRatio, sy[i] * yn, 0 - near)
            ELSE Vec(sx[i - 4] * yf * cam.aspectRatio, sy[i - 4] * yf, 0 - far)]

\* Mat4.transformPoint of the world transform of a node
ToWorld(pos, rot, p) ==
    VAdd(pos, VAdd(VScale(rot.x, p[1]), VAdd(VScale(rot.y, p[2]), VScale(rot.z, p[3]))))

RECURSIVE VSum(_, _)
VSum(pts, n) == IF n = 0 THEN Vec(0, 0, 0) ELSE VAdd(VSum(pts, n - 1), pts[n])

\* the corners in world space, their mean and the largest distance to it
SliceCorners(cam, near, far) ==
    LET pts == FrustumPoints(cam, near, far)
    IN  [i \in 1..8 |-> ToWorld(cam.position, cam.rotation, pts[i])]

SliceCenter(cam, near, far) ==
    LET sum == VSum(SliceCorners(cam, near, far), 8)
    IN  Vec(sum[1] \div 8, sum[2] \div 8, sum[3] \div 8)

SliceRadius(cam, near, far) ==
    LET center == SliceCenter(cam, near, far)
        pts == SliceCorners(cam, near, far)
    IN  Sqrt(SetMax({ LengthSq(VSub(pts[i], center)) : i \in 1..8 }))

\* the mutant: the projection is rounded down
SnapToTexelDown(v, resolution, radius) ==
    (FloorDiv(v * resolution, 4 * radius) * 4 * radius) \div resolution

\* Math.ceil(v * sizeRatio) / sizeRatio with sizeRatio = 0.25 * resolution / radius
SnapToTexel(v, resolution, radius) ==
    (CeilDiv(v * resolution, 4 * radius) * 4 * radius) \div resolution

\* the mutant: every slice starts at the near clip of the viewer
CascadeNearFromViewer(l, nearDist, cascade) == nearDist

\* the slice of the viewer's frustum a cascade covers (cascade counts from 0)
CascadeNear(l, nearDist, cascade) ==
    IF cascade = 0 THEN nearDist ELSE l._shadowCascadeDistances[cascade]
CascadeFar(l, cascade) == l._shadowCascadeDistances[cascade + 1]

\* the centre of a slice, snapped to the texels of the shadow map
SnapCenter(l, rot, center, radius) ==
    LET x == SnapToTexel(Dot(center, NodeUp(rot)), l._shadowResolution, radius)
        y == SnapToTexel(Dot(center, NodeRight(rot)), l._shadowResolution, radius)
        dot == Dot(center, NodeForward(rot))
    IN  VAdd(VAdd(VScale(NodeUp(rot), x), VScale(NodeRight(rot), y)),
             VScale(NodeForward(rot), dot))

\* the scratch box after the loop over the visible casters
RECURSIVE VisibleAabb(_, _, _)
VisibleAabb(mi, visible, old) ==
    IF visible = <<>> THEN old
    ELSE IF Len(visible) = 1 THEN mi[visible[1]].aabb
    ELSE AabbAdd(VisibleAabb(mi, SubSeq(visible, 1, Len(visible) - 1), old),
                 mi[visible[Len(visible)]].aabb)

\* the mutant: the camera is put on the nearest caster, with no margin
FitToCastersNoMargin(cam0, l, rot, farPos, fr, radius, depthRange) ==
    [cam0 EXCEPT
        !.renderTarget = [map |-> l._shadowMap, index |-> 0],
        !.rotation = rot,
        !.position = VAdd(farPos, VScale(rot.z, depthRange.max)),
        !.nearClip = 0,
        !.farClip = depthRange.max - depthRange.min,
        !.orthoHeight = radius,
        !.frustum = fr]

\* the shadow camera of a cascade once its casters are culled: moved back
\* to the depth range of the box of the visible casters
FitToCasters(cam0, l, rot, farPos, fr, radius, depthRange) ==
    [cam0 EXCEPT
        !.renderTarget = [map |-> l._shadowMap, index |-> 0],
        !.rotation = rot,
        !.position = VAdd(farPos, VScale(rot.z, depthRange.max + Unit \div 10)),
        !.nearClip = 0,
        !.farClip = depthRange.max - depthRange.min + (2 * Unit) \div 10,
        !.orthoHeight = radius,
        !.frustum = fr]

\* one pass of the loop over the cascades; l has its split distances.
\* lastOp.slices of cullDirectional are the near and far of each pass and
\* the snapped centre of its slice
CullDirectionalCascade(l, cam, drawCalls, st, cascade) ==
    LET face == cascade + 1
        rot == RotateLocalMinus90X(l.rotation)
        near == CascadeNear(l, cam._nearClip, cascade)
        far == CascadeFar(l, cascade)
        radius == SliceRadius(cam, near, far)
        farPos == VAdd(SnapCenter(l, rot, SliceCenter(cam, near, far), radius),
                       VScale(rot.z, FarAway * Unit))
        fr == OrthoFrustum(farPos, rot, 0, FarClipAll * Unit, radius)
        res == CullShadowCasters(st.mi, drawCalls, st.rd[face].visibleCasters, fr)
        box == VisibleAabb(res.mi, res.visible, st.aabb)
    IN  [ rd |-> [st.rd EXCEPT ![face] =
                     [shadowCamera |->
                          FitToCasters(st.rd[face].shadowCamera, l, rot, farPos, fr, radius,
                                       GetDepthRange(farPos, rot, box.min, box.max)),
                      visibleCasters |-> res.visible]],
          mi |-> res.mi,
          aabb |-> box ]

RECURSIVE CullDirectionalCascades(_, _, _, _, _)
CullDirectionalCascades(l, cam, drawCalls, st, n) ==
    IF n = 0 THEN st
    ELSE CullDirectionalCascade(l, cam, drawCalls,
                                CullDirectionalCascades(l, cam, drawCalls, st, n - 1), n - 1)

\* the mutant: a map is created on every call
CreatesDirectionalShadowMapAlways(l) == TRUE

\* cullDirectional calls ShadowMap.create
CreatesDirectionalShadowMap(l) == l._shadowMap = "null"

\* the light after the head of cullDirectional: visible, with a shadow map
\* and with its split distances
CullDirectionalLight(l0, cam) ==
    [l0 EXCEPT !.visibleThisFrame = TRUE,
               !._shadowMap = IF CreatesDirectionalShadowMap(l0) THEN "own" ELSE l0._shadowMap,
               !._shadowCascadeDistances = SplitDistances(l0, cam._nearClip, l0.shadowDistance)]

CullDirectional(drawCalls) ==
    \E l \in {CullDirectionalLight(light, camera)} :
    \E st \in {CullDirectionalCascades(l, camera, drawCalls,
                   [rd |-> renderData, mi |-> meshInstances, aabb |-> visibleSceneAabb],
                   l.numCascades)} :
        /\ light' = l
        /\ renderData' = st.rd
        /\ meshInstances' = st.mi
        /\ visibleSceneAabb' = st.aabb
        /\ lastOp' = [op |-> "cullDirectional", drawCalls |-> drawCalls,
                      faceCount |-> l.numCascades,
                      created |-> CreatesDirectionalShadowMap(light),
                      slices |-> [f \in 1..l.numCascades |->
                                     LET near == CascadeNear(l, camera._nearClip, f - 1)
                                         far == CascadeFar(l, f - 1)
                                     IN  [near |-> near, far |-> far,
                                          center |-> SnapCenter(l, RotateLocalMinus90X(l.rotation),
                                                         SliceCenter(camera, near, far),
                                                         SliceRadius(camera, near, far))]]]
        /\ UNCHANGED <<camera, device, scene, blurVars>>

---------------------------------------------------------------------------
(* setShadowCameraSettings, setupRenderState, restoreRenderState *)

\* shadowCam.clearColorBuffer
ClearColorBuffer(dev, shadowType, type, isClustered) ==
    LET hwPcf0 == shadowType = SHADOW_PCF5 \/ (shadowType = SHADOW_PCF3 /\ dev.webgl2)
        hwPcf == IF type = LIGHTTYPE_OMNI /\ ~isClustered THEN FALSE ELSE hwPcf0
    IN  ~hwPcf

AllChannels(b) == <<b, b, b, b>>

\* the mutant: the shadow sampler is used for an omni light in either mode
UseShadowSamplerAnyLight(dev, l, isClustered) ==
    IsPcf(l._shadowType) /\ dev.webgl2

UseShadowSampler(dev, l, isClustered) ==
    IF isClustered
    THEN IsPcf(l._shadowType) /\ dev.webgl2
    ELSE IsPcf(l._shadowType) /\ dev.webgl2 /\ l._type # LIGHTTYPE_OMNI

DepthBiasState(dev, l, isClustered) ==
    IF dev.webgl2
    THEN IF l._type = LIGHTTYPE_OMNI /\ ~isClustered
         THEN [dev EXCEPT !.depthBias = FALSE]
         ELSE [dev EXCEPT !.depthBias = TRUE,
                          !.depthBiasValues = <<l.shadowBias * (-1000), l.shadowBias * (-1000)>>]
    ELSE IF dev.extStandardDerivatives
         THEN IF l._type = LIGHTTYPE_OMNI
              THEN [dev EXCEPT !.polygonOffset = <<0, 0>>]
              ELSE [dev EXCEPT !.polygonOffset =
                                   <<l.shadowBias * (-1000), l.shadowBias * (-1000)>>]
         ELSE dev

\* the mutant: blending is left as the forward renderer set it
SetupRenderStateKeepsBlending(dev, l, isClustered) ==
    [DepthBiasState(dev, l, isClustered) EXCEPT
        !.depthWrite = TRUE,
        !.depthTest = TRUE,
        !.depthFunc = "FUNC_LESSEQUAL",
        !.colorWrite = AllChannels(~UseShadowSampler(dev, l, isClustered))]

SetupRenderState(dev, l, isClustered) ==
    [DepthBiasState(dev, l, isClustered) EXCEPT
        !.blending = FALSE,
        !.depthWrite = TRUE,
        !.depthTest = TRUE,
        !.depthFunc = "FUNC_LESSEQUAL",
        !.colorWrite = AllChannels(~UseShadowSampler(dev, l, isClustered))]

RestoreRenderState(dev) ==
    IF dev.webgl2 THEN [dev EXCEPT !.depthBias = FALSE]
    ELSE IF dev.extStandardDerivatives THEN [dev EXCEPT !.polygonOffset = <<0, 0>>]
    ELSE dev

---------------------------------------------------------------------------
(* submitCasters *)

SHADER_FORWARD == 0
SHADER_FORWARDHDR == 1
SHADER_DEPTH == 2
SHADER_SHADOW == 3
SHADER_PICK == 18

ShadowShaderSlot(l) == SHADER_SHADOW + l._shadowType + l._type * SHADOW_COUNT

\* the mutant: the shader is made for every caster drawn and replaces what
\* the caster had cached
SubmitCasterRecompiles(l, mi, id) ==
    [mi EXCEPT ![id]._shader = {ShadowShaderSlot(l)},
               ![id].keyDepth = GetDepthKey(mi[id])]

\* one pass of the loop: the shader of the pass is made and cached when the
\* instance has none, and with it the depth sort key of the instance is set
SubmitCaster(l, mi, id) ==
    IF ShadowShaderSlot(l) \in mi[id]._shader THEN mi
    ELSE [mi EXCEPT ![id]._shader = @ \cup {ShadowShaderSlot(l)},
                    ![id].keyDepth = GetDepthKey(mi[id])]

\* st: the mesh instances, the draw calls counted and the events so far
RECURSIVE SubmitCasters(_, _, _, _, _)
SubmitCasters(l, visibleCasters, face, st, n) ==
    IF n = 0 THEN st
    ELSE LET prev == SubmitCasters(l, visibleCasters, face, st, n - 1)
             id == visibleCasters[n]
         IN  [ mi |-> SubmitCaster(l, prev.mi, id),
               draws |-> prev.draws + 1,
               events |-> Append(prev.events, <<"draw", face, id>>) ]

---------------------------------------------------------------------------
(* render *)

\* the mutant: the light's visibility in the frame is not looked at
RenderEntersUnseen(l) ==
    l.enabled /\ l.castShadows /\ l.shadowUpdateMode # SHADOWUPDATE_NONE

RenderEnters(l) ==
    l.enabled /\ l.castShadows /\ l.shadowUpdateMode # SHADOWUPDATE_NONE /\ l.visibleThisFrame

\* the mutant: every update mode is consumed
ConsumeUpdateModeAlways(l) == [l EXCEPT !.shadowUpdateMode = SHADOWUPDATE_NONE]

\* the mutant: the update mode is left as it is
ConsumeUpdateModeKeep(l) == l

ConsumeUpdateMode(l) ==
    IF l.shadowUpdateMode = SHADOWUPDATE_THISFRAME
    THEN [l EXCEPT !.shadowUpdateMode = SHADOWUPDATE_NONE]
    ELSE l

\* the render target of a face, once the light has a shadow map
FaceRenderTarget(l, face) ==
    [map |-> l._shadowMap, index |-> IF l._type = LIGHTTYPE_DIRECTIONAL THEN 0 ELSE face - 1]

\* the loop over the faces. st: render data, mesh instances, draws, events
RECURSIVE RenderFaces(_, _, _, _, _)
RenderFaces(l, dev, isClustered, st, n) ==
    IF n = 0 THEN st
    ELSE LET prev == RenderFaces(l, dev, isClustered, st, n - 1)
             cam == [prev.rd[n].shadowCamera EXCEPT
                        !.clearColorBuffer =
                            ClearColorBuffer(dev, l._shadowType, l._type, isClustered),
                        !.renderTarget = FaceRenderTarget(l, n)]
             sub == SubmitCasters(l, prev.rd[n].visibleCasters, n,
                        [mi |-> prev.mi, draws |-> prev.draws, events |-> prev.events],
                        Len(prev.rd[n].visibleCasters))
         IN  [ rd |-> [prev.rd EXCEPT ![n].shadowCamera = cam],
               mi |-> sub.mi, draws |-> sub.draws, events |-> sub.events ]

\* the mutant: the shadow type of the light is not looked at
BlurAppliesAnyType(l, isClustered) ==
    /\ l._vsmBlurSize > 1
    /\ (~isClustered \/ l._type = LIGHTTYPE_DIRECTIONAL)

BlurApplies(l, isClustered) ==
    /\ IsVsm(l._shadowType)
    /\ l._vsmBlurSize > 1
    /\ (~isClustered \/ l._type = LIGHTTYPE_DIRECTIONAL)

\* the mutant: the temporary shadow map is not given back
BlurEventsKept == << <<"acquireTemp">>, <<"blurHorizontal">>, <<"blurVertical">> >>

\* applyVsmBlur: shadowMapCache.get, the two quads, shadowMapCache.add
BlurEvents == << <<"acquireTemp">>, <<"blurHorizontal">>, <<"blurVertical">>, <<"releaseTemp">> >>

\* the mutant: the render state is restored before the blur
PassEventsRestoreEarly(faceEvents, blur) ==
    faceEvents \o << <<"restoreRenderState">> >> \o (IF blur THEN BlurEvents ELSE <<>>)

\* what a pass that returns has done, in order: faceEvents begins with
\* setupRenderState and holds the draws of the faces
PassEvents(faceEvents, blur) ==
    faceEvents \o (IF blur THEN BlurEvents ELSE <<>>) \o << <<"restoreRenderState">> >>

\* lastOp.state is the render state of the device during the loop over the
\* faces, lastOp.events what the pass did, in order
Render ==
    LET isClustered == scene.clusteredLightingEnabled
        l == ConsumeUpdateMode(light)
        faceCount == NumShadowFaces(light)
        dev == SetupRenderState(device, l, isClustered)
        st == RenderFaces(l, dev, isClustered,
                  [rd |-> renderData, mi |-> meshInstances, draws |-> 0,
                   events |-> << <<"setupRenderState">> >>], faceCount)
        blur == BlurApplies(l, isClustered)
    IN  IF ~RenderEnters(light)
        THEN /\ lastOp' = [op |-> "render", entered |-> FALSE, threw |-> FALSE,
                           faceCount |-> 0, facesDone |-> 0, events |-> <<>>]
             /\ UNCHANGED <<light, cullVars, device, scene, blurVars>>
        ELSE IF light._shadowMap = "null"
        THEN \* light._shadowMap.renderTargets of the first face throws a TypeError
             /\ scene._shadowMapUpdates < FrameBudget
             /\ light' = l
             /\ scene' = [scene EXCEPT !._shadowMapUpdates = @ + faceCount]
             /\ device' = dev
             /\ renderData' = [renderData EXCEPT ![1].shadowCamera.clearColorBuffer =
                                  ClearColorBuffer(dev, l._shadowType, l._type, isClustered)]
             /\ lastOp' = [op |-> "render", entered |-> TRUE, threw |-> TRUE,
                           faceCount |-> faceCount, facesDone |-> 0,
                           events |-> << <<"setupRenderState">> >>, state |-> dev]
             /\ UNCHANGED <<meshInstances, visibleSceneAabb, camera, blurVars>>
        ELSE /\ scene._shadowMapUpdates < FrameBudget
             /\ light' = l
             /\ scene' = [scene EXCEPT !._shadowMapUpdates = @ + faceCount,
                                       !._shadowDrawCalls = @ + st.draws]
             /\ renderData' = st.rd
             /\ meshInstances' = st.mi
             /\ IF blur
                THEN GetVsmBlurShader(l._shadowType = SHADOW_VSM8, l.vsmBlurMode, l._vsmBlurSize)
                ELSE UNCHANGED blurVars
             /\ device' = RestoreRenderState(dev)
             /\ lastOp' = [op |-> "render", entered |-> TRUE, threw |-> FALSE,
                           faceCount |-> faceCount, facesDone |-> faceCount,
                           events |-> PassEvents(st.events, blur), state |-> dev]
             /\ UNCHANGED <<visibleSceneAabb, camera>>

---------------------------------------------------------------------------
(* What the rest of the engine does between the calls *)

DeviceCaps ==
    { [webgl2 |-> TRUE, extStandardDerivatives |-> TRUE],
      [webgl2 |-> FALSE, extStandardDerivatives |-> TRUE],
      [webgl2 |-> FALSE, extStandardDerivatives |-> FALSE] }

\* the render state the forward renderer sets for an opaque layer
OpaqueState(dev) ==
    [dev EXCEPT !.blending = FALSE, !.depthWrite = TRUE, !.depthTest = TRUE,
                !.depthFunc = "FUNC_LESSEQUAL", !.colorWrite = AllChannels(TRUE),
                !.depthBias = FALSE]

\* and for a transparent layer drawn with a depth bias
TransparentState(dev) ==
    [dev EXCEPT !.blending = TRUE, !.depthWrite = FALSE, !.depthTest = TRUE,
                !.depthFunc = "FUNC_LESS", !.colorWrite = <<TRUE, TRUE, TRUE, FALSE>>,
                !.depthBias = TRUE, !.depthBiasValues = <<1, 1>>]

NewDevice(caps) ==
    OpaqueState([ webgl2 |-> caps.webgl2,
                  extStandardDerivatives |-> caps.extStandardDerivatives,
                  depthBias |-> FALSE, depthBiasValues |-> <<0, 0>>,
                  polygonOffset |-> <<0, 0>>,
                  blending |-> FALSE, depthWrite |-> TRUE, depthTest |-> TRUE,
                  depthFunc |-> "FUNC_LESSEQUAL", colorWrite |-> AllChannels(TRUE) ])

NewScene(isClustered) ==
    [clusteredLightingEnabled |-> isClustered, _shadowDrawCalls |-> 0, _shadowMapUpdates |-> 0]

\* a viewer camera looking down -z with a 90 degree field of view
NewCamera(pos, nearClip) ==
    [position |-> pos, rotation |-> RotIdentity, _nearClip |-> nearClip,
     fovTan |-> <<1, 1>>, aspectRatio |-> 1]

\* a cube with the given centre (in units) and half extent 1/2
UnitBox(cx, cy, cz) ==
    Aabb(Vec(cx * Unit - Unit \div 2, cy * Unit - Unit \div 2, cz * Unit - Unit \div 2),
         Vec(cx * Unit + Unit \div 2, cy * Unit + Unit \div 2, cz * Unit + Unit \div 2))

MeshIds == {1, 2}

\* the lists of casters the culling is called with
DrawCallLists == { <<>>, <<1, 2>> }

\* the forward renderer starts a frame: counters and visibility flags reset
BeginFrame ==
    /\ scene' = [scene EXCEPT !._shadowDrawCalls = 0, !._shadowMapUpdates = 0]
    /\ light' = [light EXCEPT !.visibleThisFrame = FALSE]
    /\ meshInstances' = [id \in DOMAIN meshInstances |->
                            [meshInstances[id] EXCEPT !.visibleThisFrame = FALSE]]
    /\ lastOp' = NoOp
    /\ UNCHANGED <<renderData, visibleSceneAabb, camera, device, blurVars>>

\* the application sets the light's update mode
SetShadowUpdateMode ==
    /\ \E m \in {SHADOWUPDATE_NONE, SHADOWUPDATE_THISFRAME, SHADOWUPDATE_REALTIME} :
          /\ m # light.shadowUpdateMode
          /\ light' = [light EXCEPT !.shadowUpdateMode = m]
    /\ lastOp' = NoOp
    /\ UNCHANGED <<cullVars, device, scene, blurVars>>

\* the application enables or disables the light or its shadows
SetEnabled ==
    /\ light' = [light EXCEPT !.enabled = ~@]
    /\ lastOp' = NoOp
    /\ UNCHANGED <<cullVars, device, scene, blurVars>>

SetCastShadows ==
    /\ light' = [light EXCEPT !.castShadows = ~@]
    /\ lastOp' = NoOp
    /\ UNCHANGED <<cullVars, device, scene, blurVars>>

\* another pass of the frame leaves its render state on the device
ForwardPass ==
    /\ \E d \in {OpaqueState(device), TransparentState(device)} :
          /\ d # device
          /\ device' = d
    /\ lastOp' = NoOp
    /\ UNCHANGED <<light, cullVars, scene, blurVars>>

\* in clustered mode the atlas hands its shadow map to the light
AssignAtlasShadowMap ==
    /\ scene.clusteredLightingEnabled
    /\ light._shadowMap = "null"
    /\ light' = [light EXCEPT !._shadowMap = "atlas"]
    /\ lastOp' = NoOp
    /\ UNCHANGED <<cullVars, device, scene, blurVars>>

\* the light's own shadow map is freed (its resolution changed)
DestroyShadowMap ==
    /\ light._shadowMap = "own"
    /\ light' = [light EXCEPT !._shadowMap = "null"]
    /\ lastOp' = NoOp
    /\ UNCHANGED <<cullVars, device, scene, blurVars>>

\* the application gives the light another shadow type: the light drops its
\* shadow map and its render data
SetShadowType ==
    /\ \E t \in {SHADOW_PCF3, SHADOW_VSM16} :
          /\ t # light._shadowType
          /\ light' = [light EXCEPT !._shadowType = t, !._shadowMap = "null"]
    /\ renderData' = [f \in Faces |-> NewRenderData(light', f)]
    /\ lastOp' = NoOp
    /\ UNCHANGED <<meshInstances, visibleSceneAabb, camera, device, scene, blurVars>>

\* the casters whose settings the application changes
ChangingCasters == {1}

\* the application gives a caster a skin or takes it away
SetSkinInstance ==
    /\ \E id \in ChangingCasters :
          meshInstances' = [meshInstances EXCEPT ![id].skinInstance = ~@]
    /\ lastOp' = NoOp
    /\ UNCHANGED <<light, renderData, visibleSceneAabb, camera, device, scene, blurVars>>

CallCullLocal(lists) ==
    /\ light._type # LIGHTTYPE_DIRECTIONAL
    /\ \E drawCalls \in lists : CullLocal(drawCalls)

CallCullDirectional(lists) ==
    /\ light._type = LIGHTTYPE_DIRECTIONAL
    /\ \E drawCalls \in lists : CullDirectional(drawCalls)

\* everything but the light, as the engine starts
IdleRest ==
    /\ renderData = [f \in Faces |-> NewRenderData(light, f)]
    /\ meshInstances = [id \in MeshIds |->
                           NewMeshInstance(UnitBox(0, -2, -2), id = 1, id = 2, "")]
    /\ visibleSceneAabb = DefaultAabb
    /\ camera = NewCamera(Vec(0, 0, 0), Unit)
    /\ device = NewDevice([webgl2 |-> TRUE, extStandardDerivatives |-> TRUE])
    /\ scene = NewScene(FALSE)
    /\ blurVsmShader = {}
    /\ blurVsmWeights = <<>>

---------------------------------------------------------------------------
(* The shadow pass of one light over its life: culling, render, and the
   application switching the light *)

LightTypes == {LIGHTTYPE_DIRECTIONAL, LIGHTTYPE_OMNI, LIGHTTYPE_SPOT}
ShadowTypes == {SHADOW_PCF3, SHADOW_VSM8, SHADOW_VSM16, SHADOW_VSM32, SHADOW_PCF5, SHADOW_PCF1}

\* two casters at the same place in front of the viewer: one culled by the
\* frustum, one never culled and skinned
SceneMeshes ==
    [id \in MeshIds |-> NewMeshInstance(UnitBox(0, -2, -2), id = 1, id = 2, "")]

\* a light of the given type, shadow type and cascade count; the shadow
\* distance makes every split distance fall on the grid
SceneLight(type, shadowType, nc, blurSize) ==
    NewLight([DefaultLightConfig EXCEPT
                 !._type = type, !._shadowType = shadowType,
                 !._vsmBlurSize = blurSize, !.numCascades = nc,
                 !.cascadeDistribution = 1,
                 !.shadowDistance = IPow(2, nc) * Unit])

Init ==
    /\ \E type \in LightTypes, nc \in 1..MaxCascades :
          /\ type # LIGHTTYPE_DIRECTIONAL => nc = 1
          /\ light = SceneLight(type, SHADOW_PCF3, nc, 1)
    /\ renderData = [f \in Faces |-> NewRenderData(light, f)]
    /\ meshInstances = SceneMeshes
    /\ visibleSceneAabb = DefaultAabb
    /\ camera = NewCamera(Vec(0, 0, 0), Unit)
    /\ device = NewDevice([webgl2 |-> TRUE, extStandardDerivatives |-> TRUE])
    /\ \E isClustered \in BOOLEAN : scene = NewScene(isClustered)
    /\ blurVsmShader = {}
    /\ blurVsmWeights = <<>>
    /\ lastOp = NoOp

Next ==
    \/ CallCullLocal(DrawCallLists)
    \/ CallCullDirectional(DrawCallLists)
    \/ Render
    \/ BeginFrame
    \/ SetShadowUpdateMode
    \/ SetEnabled
    \/ SetCastShadows
    \/ AssignAtlasShadowMap
    \/ DestroyShadowMap

Spec == Init /\ [][Next]_vars

---------------------------------------------------------------------------
(* The render state around the shadow pass, for every kind of light, shadow
   type and device, between the other passes of the frame *)

InitState ==
    /\ \E type \in LightTypes, shadowType \in ShadowTypes, blurSize \in {1, 3} :
          light = SceneLight(type, shadowType, 1, blurSize)
    /\ renderData = [f \in Faces |-> NewRenderData(light, f)]
    /\ meshInstances = SceneMeshes
    /\ visibleSceneAabb = DefaultAabb
    /\ camera = NewCamera(Vec(0, 0, 0), Unit)
    /\ \E caps \in DeviceCaps : device = NewDevice(caps)
    /\ \E isClustered \in BOOLEAN : scene = NewScene(isClustered)
    /\ blurVsmShader = {}
    /\ blurVsmWeights = <<>>
    /\ lastOp = NoOp

NextState ==
    \/ CallCullLocal({<<1, 2>>})
    \/ CallCullDirectional({<<1, 2>>})
    \/ Render
    \/ BeginFrame
    \/ ForwardPass
    \/ AssignAtlasShadowMap
    \/ SetShadowUpdateMode

SpecState == InitState /\ [][NextState]_vars

---------------------------------------------------------------------------
(* The cascades of a directional light over a scene of three casters *)

\* caster 1 is in front of the viewer, inside every cascade; caster 2 is
\* further away, beyond the first cascade; caster 3 is far outside the
\* shadow distance and is culled or not
CascadeMeshes(cull3) ==
    [id \in {1, 2, 3} |->
        NewMeshInstance(UnitBox(0, -2, IF id = 1 THEN -2 ELSE IF id = 2 THEN -7 ELSE -60),
                        id # 3 \/ cull3, FALSE, "")]

CascadeDrawCalls ==
    { <<>>, <<1>>, <<2>>, <<3>>, <<1, 2>>, <<1, 3>>, <<2, 3>>, <<1, 2, 3>> }

CameraPositions == { Vec(0, 0, 0), Vec(Unit \div 4, 0, Unit) }

\* the viewer moves
MoveCamera ==
    /\ \E pos \in CameraPositions :
          /\ pos # camera.position
          /\ camera' = [camera EXCEPT !.position = pos]
    /\ lastOp' = NoOp
    /\ UNCHANGED <<light, renderData, meshInstances, visibleSceneAabb, device, scene, blurVars>>

InitCascade ==
    /\ \E nc \in 1..MaxCascades : light = SceneLight(LIGHTTYPE_DIRECTIONAL, SHADOW_PCF3, nc, 1)
    /\ renderData = [f \in Faces |-> NewRenderData(light, f)]
    /\ \E cull3 \in BOOLEAN : meshInstances = CascadeMeshes(cull3)
    /\ visibleSceneAabb = DefaultAabb
    /\ camera = NewCamera(Vec(0, 0, 0), Unit)
    /\ device = NewDevice([webgl2 |-> TRUE, extStandardDerivatives |-> TRUE])
    /\ scene = NewScene(FALSE)
    /\ blurVsmShader = {}
    /\ blurVsmWeights = <<>>
    /\ lastOp = NoOp

NextCascade ==
    \/ CallCullDirectional(CascadeDrawCalls)
    \/ BeginFrame
    \/ MoveCamera

SpecCascade == InitCascade /\ [][NextCascade]_vars

---------------------------------------------------------------------------
(* The casters of a light: their culling, their order and their shaders *)

\* caster 1 is plain and caster 2 is skinned, both in front of the light and
\* culled by the frustum; caster 3 has an opacity map in the red channel, is
\* far outside the range of the light and is culled by the frustum or not
CasterMeshes(cull3) ==
    [id \in {1, 2, 3} |->
        NewMeshInstance(UnitBox(0, -2, IF id = 3 THEN -60 ELSE -2),
                        id # 3 \/ cull3, id = 2, IF id = 3 THEN "r" ELSE "")]

CasterDrawCalls == { <<1, 2>>, <<3, 1, 3>> }

InitCasters ==
    /\ \E type \in {LIGHTTYPE_DIRECTIONAL, LIGHTTYPE_SPOT} :
          light = SceneLight(type, SHADOW_PCF3, 1, 1)
    /\ renderData = [f \in Faces |-> NewRenderData(light, f)]
    /\ \E cull3 \in BOOLEAN : meshInstances = CasterMeshes(cull3)
    /\ visibleSceneAabb = DefaultAabb
    /\ camera = NewCamera(Vec(0, 0, 0), Unit)
    /\ device = NewDevice([webgl2 |-> TRUE, extStandardDerivatives |-> TRUE])
    /\ scene = NewScene(FALSE)
    /\ blurVsmShader = {}
    /\ blurVsmWeights = <<>>
    /\ lastOp = NoOp

NextCasters ==
    \/ CallCullLocal(CasterDrawCalls)
    \/ CallCullDirectional(CasterDrawCalls)
    \/ Render
    \/ BeginFrame
    \/ SetShadowType
    \/ SetSkinInstance

SpecCasters == InitCasters /\ [][NextCasters]_vars

---------------------------------------------------------------------------
(* Specification of generateSplitDistances alone *)

InitSplit ==
    /\ \E cfg \in CascadeConfigs :
          light = NewLight([DefaultLightConfig EXCEPT !.numCascades = cfg.numCascades,
                                !.cascadeDistribution = cfg.cascadeDistribution])
    /\ IdleRest
    /\ lastOp = NoOp

CallGenerateSplitDistances ==
    /\ \E n \in 1..MaxNear, f \in 2..MaxFar :
          /\ ValidSplitInput(n, f, light.numCascades)
          /\ GenerateSplitDistances(n * Unit, f * Unit)

\* the scene sets the light's cascade count and distribution between frames
SetCascadeConfig ==
    /\ \E cfg \in CascadeConfigs :
          light' = [light EXCEPT !.numCascades = cfg.numCascades,
                                 !.cascadeDistribution = cfg.cascadeDistribution]
    /\ lastOp' = [op |-> "setCascadeConfig"]
    /\ UNCHANGED <<blurVars, cullVars, device, scene>>

NextSplit == CallGenerateSplitDistances \/ SetCascadeConfig

SpecSplit == InitSplit /\ [][NextSplit]_vars

---------------------------------------------------------------------------
(* Claims on generateSplitDistances, checked under SpecSplit *)

AfterSplit == lastOp.op = "generateSplitDistances"

\* C4: for near N > 0, far F > N, any cascade count C and distribution in
\* [0,1], the split distances at indices 0..C-1 are strictly increasing and
\* each lies within [N, F].
C4_SplitsIncreasingWithinRange ==
    AfterSplit =>
        \A k \in 1..light.numCascades :
            /\ lastOp.nearDist <= light._shadowCascadeDistances[k]
            /\ light._shadowCascadeDistances[k] <= lastOp.farDist
            /\ k < light.numCascades =>
                   light._shadowCascadeDistances[k] < light._shadowCascadeDistances[k + 1]

C4_Witness ==
    /\ AfterSplit
    /\ light.numCascades = MaxCascades
    /\ light.cascadeDistribution \notin {0, DistDen}
    /\ light._shadowCascadeDistances[1] < light._shadowCascadeDistances[2]

\* C5: with distribution 0 split i (1 <= i <= C-1) is exactly the linear
\* value N + (F-N)*i/C; with distribution 1 it is exactly the geometric value
\* N*(F/N)^(i/C), the g with (g/N)^C = (F/N)^i.
C5_PureLinearPureGeometric ==
    AfterSplit =>
        \A i \in 1..(light.numCascades - 1) :
            LET s == light._shadowCascadeDistances[i]
                n == lastOp.nearDist
                f == lastOp.farDist
                c == light.numCascades
            IN  /\ light.cascadeDistribution = 0 => s * c = n * c + (f - n) * i
                /\ light.cascadeDistribution = DistDen =>
                       /\ s % Unit = 0
                       /\ IPow(s \div Unit, c) * IPow(n \div Unit, i)
                              = IPow(n \div Unit, c) * IPow(f \div Unit, i)

C5_Witness ==
    /\ AfterSplit
    /\ light.numCascades = MaxCascades
    /\ light.cascadeDistribution = DistDen
    /\ lastOp.nearDist = 2 * Unit
    /\ light._shadowCascadeDistances[1] = 4 * Unit

\* C6: after generateSplitDistances(light, N, F) the entry of the last
\* cascade (index numCascades-1) is exactly F, for every cascade count
\* including 1, and so is every entry at or beyond that index.
C6_LastCascadeFarIsF ==
    AfterSplit =>
        \A k \in light.numCascades..MaxCascades :
            light._shadowCascadeDistances[k] = lastOp.farDist

C6_Witness ==
    /\ AfterSplit
    /\ light.numCascades = 1
    /\ lastOp.farDist = MaxFar * Unit
    /\ light._shadowCascadeDistances[MaxCascades] = MaxFar * Unit

---------------------------------------------------------------------------
(* Specification of the blur shaders and their weights alone *)

InitBlur ==
    /\ light = NewLight(DefaultLightConfig)
    /\ IdleRest
    /\ lastOp = NoOp

CallGetVsmBlurShader ==
    /\ Cardinality(blurVsmShader) < MaxBlurShaders
    /\ \E key \in BlurShaderKeys :
          /\ GetVsmBlurShader(key[1], key[2], key[3])
          /\ lastOp' = [op |-> "getVsmBlurShader", isVsm8 |-> key[1],
                        blurMode |-> key[2], filterSize |-> key[3]]
    /\ UNCHANGED <<light, cullVars, device, scene>>

NextBlur == CallGetVsmBlurShader

SpecBlur == InitBlur /\ [][NextBlur]_vars

\* the sum of a weight array, and the rounding the model's division allows:
\* one step per entry (the tolerance 1e-6 of doubles, on the model's grid)
WeightSum(w) == FSum(w, Len(w))

SumsToOne(w) ==
    /\ ~WeightSum(w).nan
    /\ WeightSum(w).v <= One
    /\ WeightSum(w).v >= One - Len(w)

\* C7: for every kernel size k in [1, 25] the weight array computed for it
\* sums to 1.0 within tolerance.
C7_WeightsSumToOne ==
    \A k \in DOMAIN blurVsmWeights :
        (1 <= k /\ k <= maxBlurSize) => SumsToOne(blurVsmWeights[k])

---------------------------------------------------------------------------
(* Claims on the life of a light's shadow pass, checked under Spec *)

\* the faces whose shadow camera the culling has set up, and the faces a
\* render has given a render target
CulledFaces == { f \in Faces : renderData[f].shadowCamera.frustum # NoFrustum }
TargetedFaces == { f \in Faces : renderData[f].shadowCamera.renderTarget.map # "null" }
DrawnFaces(events) ==
    { events[k][2] : k \in { j \in 1..Len(events) : events[j][1] = "draw" } }

ExpectedFaces ==
    IF light._type = LIGHTTYPE_OMNI THEN 6
    ELSE IF light._type = LIGHTTYPE_SPOT THEN 1
    ELSE light.numCascades

\* C1: a render of an enabled, shadow-casting, visible light whose update mode
\* is SHADOWUPDATE_THISFRAME leaves the mode SHADOWUPDATE_NONE; a render of a
\* light whose mode is SHADOWUPDATE_NONE submits nothing and changes neither
\* the device nor the light, the casters, the cameras or the counters; and no
\* call of the shadow renderer takes the mode away from SHADOWUPDATE_NONE
C1_OnceThenStop ==
    [][ /\ (/\ lastOp'.op = "render"
             /\ light.enabled /\ light.castShadows /\ light.visibleThisFrame
             /\ light.shadowUpdateMode = SHADOWUPDATE_THISFRAME)
            => light'.shadowUpdateMode = SHADOWUPDATE_NONE
        /\ (lastOp'.op = "render" /\ light.shadowUpdateMode = SHADOWUPDATE_NONE)
            => /\ ~lastOp'.entered
               /\ lastOp'.events = <<>>
               /\ UNCHANGED <<light, device, scene, cullVars, blurVars>>
        /\ (lastOp'.op # "none" /\ light.shadowUpdateMode = SHADOWUPDATE_NONE)
            => light'.shadowUpdateMode = SHADOWUPDATE_NONE ]_vars

\* a render has entered, drawn casters and returned, and the mode it left is
\* SHADOWUPDATE_NONE: the light was on SHADOWUPDATE_THISFRAME
C1_Witness ==
    /\ lastOp.op = "render"
    /\ lastOp.entered
    /\ ~lastOp.threw
    /\ DrawnFaces(lastOp.events) # {}
    /\ light.shadowUpdateMode = SHADOWUPDATE_NONE

\* C3: cullLocal works on exactly 6 faces of an omni light and 1 face of a
\* spot light, cullDirectional on exactly numCascades faces, and a render
\* that enters counts that many faces and, when it returns, has given
\* exactly those faces their render target and drawn to no other face
C3_FaceCounts ==
    /\ lastOp.op \in {"cullLocal", "cullDirectional"}
           => /\ lastOp.faceCount = ExpectedFaces
              /\ CulledFaces = 1..ExpectedFaces
    /\ (lastOp.op = "render" /\ lastOp.entered)
           => /\ lastOp.faceCount = ExpectedFaces
              /\ ~lastOp.threw
                    => /\ lastOp.facesDone = ExpectedFaces
                       /\ TargetedFaces = 1..ExpectedFaces
                       /\ DrawnFaces(lastOp.events) \subseteq 1..ExpectedFaces

\* a spot light has been culled and rendered: one face, and a draw to it
C3_Witness ==
    /\ lastOp.op = "render"
    /\ lastOp.entered
    /\ ~lastOp.threw
    /\ light._type = LIGHTTYPE_SPOT
    /\ DrawnFaces(lastOp.events) = {1}
    /\ CulledFaces = {1}

\* C10: a render of an enabled, shadow-casting, visible light that has no
\* shadow map raises no error, submits nothing and leaves the device and
\* the update mode of the light as they were
C10_MissingMapSkipped ==
    [][ (/\ lastOp'.op = "render"
         /\ light.enabled /\ light.castShadows /\ light.visibleThisFrame
         /\ light._shadowMap = "null")
        => /\ ~lastOp'.threw
           /\ lastOp'.events = <<>>
           /\ device' = device
           /\ light'.shadowUpdateMode = light.shadowUpdateMode ]_vars

---------------------------------------------------------------------------
(* Claim on the render state, checked under SpecState *)

\* C9: when a render that entered returns, the depth bias and its values,
\* the polygon offset, the color write mask, blending, depth write, depth
\* test and the depth function of the device are what they were before it
C9_RenderStateRestored ==
    [][ (lastOp'.op = "render" /\ lastOp'.entered /\ ~lastOp'.threw)
        => device' = device ]_vars

---------------------------------------------------------------------------
(* Claims on the cascades of a directional light, checked under SpecCascade *)

Cascades == 1..light.numCascades

Listed(list) == { list[k] : k \in 1..Len(list) }

\* the bounds of a caster meet the frustum its cascade was culled with
MeetsCascade(id, f) ==
    BoxMeetsFrustum(renderData[f].shadowCamera.frustum, meshInstances[id].aabb)

InCascade(id, f) == id \in Listed(renderData[f].visibleCasters)

\* a caster whose bounds meet the frustums of two cascades is in the list
\* of both
InBothWhenMeetingBoth(id) ==
    \A f, g \in Cascades :
        (f # g /\ MeetsCascade(id, f) /\ MeetsCascade(id, g))
            => (InCascade(id, f) /\ InCascade(id, g))

\* C2: after cullDirectional a caster of the list that meets the frustum of
\* no cascade is in the visible-caster list of no cascade, and one that
\* meets the frustums of two cascades is in the list of both
C2_OutsideNoneOverlapBoth ==
    lastOp.op = "cullDirectional" =>
        \A id \in Listed(lastOp.drawCalls) :
            /\ (\A f \in Cascades : ~MeetsCascade(id, f))
                   => (\A f \in Cascades : ~InCascade(id, f))
            /\ InBothWhenMeetingBoth(id)

\* C2, amended: after cullDirectional a caster of the list that is culled
\* (its cull flag is set) and meets the frustum of no cascade is in the list
\* of no cascade; a caster that is not culled is in the list of every
\* cascade wherever it lies; and a caster that meets the frustums of two
\* cascades is in the list of both
C2_CulledOutsideNoneOverlapBoth ==
    lastOp.op = "cullDirectional" =>
        \A id \in Listed(lastOp.drawCalls) :
            /\ (meshInstances[id].cull /\ \A f \in Cascades : ~MeetsCascade(id, f))
                   => (\A f \in Cascades : ~InCascade(id, f))
            /\ ~meshInstances[id].cull => (\A f \in Cascades : InCascade(id, f))
            /\ InBothWhenMeetingBoth(id)

\* three casters were culled for a light of several cascades: the culled
\* one outside every frustum is in no list, the one meeting the frustums of
\* the first two cascades is in both lists
C2_Witness ==
    /\ lastOp.op = "cullDirectional"
    /\ lastOp.drawCalls = <<1, 2, 3>>
    /\ light.numCascades >= 2
    /\ meshInstances[3].cull
    /\ \A f \in Cascades : ~MeetsCascade(3, f) /\ ~InCascade(3, f)
    /\ MeetsCascade(1, 1) /\ MeetsCascade(1, 2)
    /\ InCascade(1, 1) /\ InCascade(1, 2)

\* what cullDirectional sets on the shadow camera of a cascade
CameraSettings(cam) ==
    <<cam.position, cam.rotation, cam.orthoHeight, cam.nearClip, cam.farClip>>

\* C8: a second cullDirectional with the light, the viewer and the list of
\* casters of the first gives every cascade the shadow camera position and
\* rotation, ortho height and clip planes the first gave it
C8_SecondRunSameCameras ==
    [][ (/\ lastOp.op = "cullDirectional"
         /\ lastOp'.op = "cullDirectional"
         /\ lastOp'.drawCalls = lastOp.drawCalls
         /\ camera' = camera
         /\ light' = light)
        => \A f \in Cascades :
              CameraSettings(renderData'[f].shadowCamera)
                  = CameraSettings(renderData[f].shadowCamera) ]_vars

---------------------------------------------------------------------------
(* Claims on the steps of a shadow pass and its blur, checked under SpecState *)

\* where in the events of a pass the events of one kind are
Positions(events, kind) == { j \in 1..Len(events) : events[j][1] = kind }

BlurPositions(events) ==
    Positions(events, "acquireTemp") \cup Positions(events, "blurHorizontal")
        \cup Positions(events, "blurVertical") \cup Positions(events, "releaseTemp")

\* the temporary shadow maps held after the first n events
HeldAfter(events, n) ==
    Cardinality({ j \in Positions(events, "acquireTemp") : j <= n })
        - Cardinality({ j \in Positions(events, "releaseTemp") : j <= n })

\* C11: in a render every temporary shadow map taken from the cache is given
\* back right after the vertical blur pass, which follows the horizontal one
\* and the taking; at no point of the pass is more than one held, and none
\* is held when the pass is over
C11_TempTargetNested ==
    lastOp.op = "render" =>
        LET events == lastOp.events
        IN  /\ \A n \in 0..Len(events) : HeldAfter(events, n) \in {0, 1}
            /\ HeldAfter(events, Len(events)) = 0
            /\ \A j \in Positions(events, "acquireTemp") :
                   /\ j + 3 <= Len(events)
                   /\ events[j + 1] = <<"blurHorizontal">>
                   /\ events[j + 2] = <<"blurVertical">>
                   /\ events[j + 3] = <<"releaseTemp">>
            /\ \A j \in Positions(events, "releaseTemp") :
                   j > 3 /\ events[j - 3] = <<"acquireTemp">>

\* a render has blurred the shadow map of a light
C11_Witness ==
    /\ lastOp.op = "render"
    /\ lastOp.entered
    /\ Positions(lastOp.events, "acquireTemp") # {}
    /\ Positions(lastOp.events, "releaseTemp") # {}

\* C12: in a render that enters, setupRenderState is the first event and
\* happens once, every draw of every face comes before the blur, and
\* restoreRenderState happens at most once and only as the last event, after
\* the draws and the blur; a render that returns ends with it
C12_PassOrder ==
    (lastOp.op = "render" /\ lastOp.entered) =>
        LET events == lastOp.events
        IN  /\ Positions(events, "setupRenderState") = {1}
            /\ Positions(events, "restoreRenderState") \subseteq {Len(events)}
            /\ ~lastOp.threw => Positions(events, "restoreRenderState") = {Len(events)}
            /\ \A d \in Positions(events, "draw"), b \in BlurPositions(events) : d < b
            /\ \A b \in BlurPositions(events) :
                   b < Len(events) /\ events[Len(events)] = <<"restoreRenderState">>

\* an omni light has drawn casters to its last face and was blurred
C12_Witness ==
    /\ lastOp.op = "render"
    /\ lastOp.entered
    /\ ~lastOp.threw
    /\ light._type = LIGHTTYPE_OMNI
    /\ 6 \in DrawnFaces(lastOp.events)
    /\ BlurPositions(lastOp.events) # {}

\* C13: a render blurs only for a light with a variance shadow type, a blur
\* size above 1 and either no clustered lighting or a directional light,
\* and a render of such a light that returns has blurred; for any other
\* light no temporary shadow map is taken and no blur quad is drawn
C13_BlurOnlyWhenApplicable ==
    (lastOp.op = "render" /\ lastOp.entered) =>
        LET applicable ==
                /\ light._shadowType \in {SHADOW_VSM8, SHADOW_VSM16, SHADOW_VSM32}
                /\ light._vsmBlurSize > 1
                /\ (~scene.clusteredLightingEnabled \/ light._type = LIGHTTYPE_DIRECTIONAL)
        IN  /\ BlurPositions(lastOp.events) # {} => applicable
            /\ (applicable /\ ~lastOp.threw)
                   => Positions(lastOp.events, "blurVertical") # {}

\* a light without a variance shadow type and with a blur size above 1 was
\* rendered: casters were drawn, nothing was blurred, the render returned
C13_Witness ==
    /\ lastOp.op = "render"
    /\ lastOp.entered
    /\ ~lastOp.threw
    /\ light._shadowType = SHADOW_PCF3
    /\ light._vsmBlurSize > 1
    /\ DrawnFaces(lastOp.events) # {}
    /\ BlurPositions(lastOp.events) = {}

---------------------------------------------------------------------------
(* Claim on the configuration of the light, checked under SpecState *)

\* the parameters a light is configured with
LightConfig(l) ==
    <<l._type, l._shadowType, l._shadowResolution, l.shadowBias, l.numCascades,
      l.cascadeDistribution, l._vsmBlurSize, l.vsmBlurMode>>

\* C14: cullLocal, cullDirectional and render leave the type, shadow type,
\* resolution, bias, cascade count, cascade distribution, blur size and blur
\* mode of the light as they are, and when one of them changes the update
\* mode it is render taking SHADOWUPDATE_THISFRAME to SHADOWUPDATE_NONE
C14_ConfigReadOnly ==
    [][ lastOp'.op \in {"cullLocal", "cullDirectional", "render"}
        => /\ LightConfig(light') = LightConfig(light)
           /\ light'.shadowUpdateMode # light.shadowUpdateMode
                 => /\ lastOp'.op = "render"
                    /\ light.shadowUpdateMode = SHADOWUPDATE_THISFRAME
                    /\ light'.shadowUpdateMode = SHADOWUPDATE_NONE ]_vars

\* a light with the most demanding variance shadow type was culled and
\* rendered with blur on SHADOWUPDATE_THISFRAME: it still has that shadow
\* type and its update mode went to SHADOWUPDATE_NONE
C14_Witness ==
    /\ lastOp.op = "render"
    /\ lastOp.entered
    /\ ~lastOp.threw
    /\ light._shadowType = SHADOW_VSM32
    /\ BlurPositions(lastOp.events) # {}
    /\ light.shadowUpdateMode = SHADOWUPDATE_NONE

---------------------------------------------------------------------------
(* Claims on entering the pass and on the shadow map of the light, checked
   under Spec *)

\* C15: a render of a light that is disabled, casts no shadows, has update
\* mode SHADOWUPDATE_NONE or is not visible this frame does nothing: no
\* event of a pass, and the device, the counters, the light with its update
\* mode, the casters, the cameras and the blur shaders are unchanged
C15_RenderNoOp ==
    [][ (/\ lastOp'.op = "render"
         /\ \/ ~light.enabled
            \/ ~light.castShadows
            \/ light.shadowUpdateMode = SHADOWUPDATE_NONE
            \/ ~light.visibleThisFrame)
        => /\ ~lastOp'.entered
           /\ lastOp'.events = <<>>
           /\ UNCHANGED <<light, device, scene, cullVars, blurVars>> ]_vars

\* render was called for a disabled light that is visible, casts shadows,
\* has a shadow map and updates every frame, and did not enter
C15_Witness ==
    /\ lastOp.op = "render"
    /\ ~lastOp.entered
    /\ ~light.enabled
    /\ light.castShadows
    /\ light.visibleThisFrame
    /\ light.shadowUpdateMode = SHADOWUPDATE_REALTIME
    /\ light._shadowMap = "own"

\* C16: with clustered lighting, cullLocal and cullDirectional for a light
\* without a shadow map leave it without one
C16_ClusteredNoOwnMap ==
    [][ (/\ lastOp'.op \in {"cullLocal", "cullDirectional"}
         /\ scene.clusteredLightingEnabled
         /\ light._shadowMap = "null")
        => (light'._shadowMap = "null" /\ ~lastOp'.created) ]_vars

\* C16, amended: with clustered lighting, cullLocal for an omni or spot
\* light without a shadow map leaves it without one, while cullDirectional
\* for a directional light without a shadow map creates one for the light
C16_ClusteredNoOwnMapForLocal ==
    [][ (/\ scene.clusteredLightingEnabled
         /\ light._shadowMap = "null")
        => /\ lastOp'.op = "cullLocal"
                 => (light'._shadowMap = "null" /\ ~lastOp'.created)
           /\ lastOp'.op = "cullDirectional"
                 => (light'._shadowMap = "own" /\ lastOp'.created) ]_vars

\* with clustered lighting an omni light was culled and has no shadow map
C16_Witness ==
    /\ lastOp.op = "cullLocal"
    /\ scene.clusteredLightingEnabled
    /\ light._type = LIGHTTYPE_OMNI
    /\ light._shadowMap = "null"
    /\ ~lastOp.created
    /\ CulledFaces = 1..6

\* C17: without clustered lighting, a cull of a light without a shadow map
\* creates one, a cull of a light with a shadow map creates none and leaves
\* the light its map, and render neither creates nor replaces a map
C17_MapCreatedOnce ==
    [][ ~scene.clusteredLightingEnabled
        => /\ lastOp'.op \in {"cullLocal", "cullDirectional"}
                 => /\ lastOp'.created <=> light._shadowMap = "null"
                    /\ light'._shadowMap = IF light._shadowMap = "null" THEN "own"
                                            ELSE light._shadowMap
           /\ lastOp'.op = "render" => light'._shadowMap = light._shadowMap ]_vars

\* without clustered lighting a light that had been culled and rendered was
\* culled again and no map was created
C17_Witness ==
    /\ lastOp.op \in {"cullLocal", "cullDirectional"}
    /\ ~scene.clusteredLightingEnabled
    /\ ~lastOp.created
    /\ light._shadowMap = "own"
    /\ TargetedFaces # {}
    /\ scene._shadowMapUpdates > 0

---------------------------------------------------------------------------
(* Claims on the render state set up for a pass, checked under SpecState *)

\* C18: the render state set up for a pass has color write off on every
\* channel when the shadow type is PCF1, PCF3 or PCF5, the device is WebGL2
\* and the lighting is clustered or the light is not omni, and has it on on
\* every channel otherwise
C18_ColorWriteOffForSampler ==
    (lastOp.op = "render" /\ lastOp.entered)
        => LET sampled ==
                   /\ light._shadowType \in {SHADOW_PCF1, SHADOW_PCF3, SHADOW_PCF5}
                   /\ device.webgl2
                   /\ \/ scene.clusteredLightingEnabled
                      \/ light._type # LIGHTTYPE_OMNI
           IN  lastOp.state.colorWrite =
                   IF sampled THEN <<FALSE, FALSE, FALSE, FALSE>>
                   ELSE <<TRUE, TRUE, TRUE, TRUE>>

\* an omni light with a PCF shadow type was rendered on WebGL2 with
\* clustered lighting, into its atlas map, with color write off
C18_Witness ==
    /\ lastOp.op = "render"
    /\ lastOp.entered
    /\ ~lastOp.threw
    /\ light._type = LIGHTTYPE_OMNI
    /\ light._shadowType = SHADOW_PCF5
    /\ scene.clusteredLightingEnabled
    /\ device.webgl2
    /\ DrawnFaces(lastOp.events) # {}
    /\ lastOp.state.colorWrite = <<FALSE, FALSE, FALSE, FALSE>>

\* C19: on a WebGL2 device and on a WebGL1 device with the derivatives
\* extension, the render state set up for a pass has no depth bias for an
\* omni light without clustered lighting, and has the bias
\* shadowBias * -1000 in both components for every other light
C19_BiasExceptOmniNonAtlas ==
    (/\ lastOp.op = "render"
     /\ lastOp.entered
     /\ device.webgl2 \/ device.extStandardDerivatives)
        => LET skips == light._type = LIGHTTYPE_OMNI /\ ~scene.clusteredLightingEnabled
               bias == <<light.shadowBias * (-1000), light.shadowBias * (-1000)>>
           IN  IF device.webgl2
               THEN IF skips THEN ~lastOp.state.depthBias
                    ELSE /\ lastOp.state.depthBias
                         /\ lastOp.state.depthBiasValues = bias
               ELSE lastOp.state.polygonOffset = IF skips THEN <<0, 0>> ELSE bias

\* C20: in a pass that drew casters, the render state the casters were
\* drawn with has blending off, depth write on, depth test on and the depth
\* function less-or-equal
C20_CasterDrawState ==
    (/\ lastOp.op = "render"
     /\ lastOp.entered
     /\ DrawnFaces(lastOp.events) # {})
        => /\ ~lastOp.state.blending
           /\ lastOp.state.depthWrite
           /\ lastOp.state.depthTest
           /\ lastOp.state.depthFunc = "FUNC_LESSEQUAL"

\* a pass drew casters on every face of an omni light and returned
C20_Witness ==
    /\ lastOp.op = "render"
    /\ lastOp.entered
    /\ ~lastOp.threw
    /\ DrawnFaces(lastOp.events) = 1..6
    /\ ~lastOp.state.blending
    /\ lastOp.state.depthFunc = "FUNC_LESSEQUAL"

---------------------------------------------------------------------------
(* Claims on the casters of a light, checked under SpecCasters *)

\* the casters a pass drew
DrawnCasters(events) ==
    { events[k][3] : k \in { j \in 1..Len(events) : events[j][1] = "draw" } }

\* C21: a render adds the shader slot of the light's shadow type and type to
\* the cache of a caster it draws that has none cached for it; in every other
\* case, and in every other step, the cache of a caster is left as it is and
\* the step that goes with making a shader (setting the depth sort key) is
\* not taken
C21_ShaderCachedOnce ==
    [][ \A id \in DOMAIN meshInstances :
          LET slot == SHADER_SHADOW + light._shadowType + light._type * SHADOW_COUNT
              made == /\ lastOp'.op = "render"
                      /\ lastOp'.entered
                      /\ id \in DrawnCasters(lastOp'.events)
                      /\ slot \notin meshInstances[id]._shader
          IN  IF made
              THEN meshInstances'[id]._shader = meshInstances[id]._shader \cup {slot}
              ELSE /\ meshInstances'[id]._shader = meshInstances[id]._shader
                   /\ meshInstances'[id].keyDepth = meshInstances[id].keyDepth ]_vars

\* a caster that has the shaders of two shadow types cached, and whose
\* skinning changed since they were made, was drawn again: nothing was made
C21_Witness ==
    /\ lastOp.op = "render"
    /\ lastOp.entered
    /\ 1 \in DrawnCasters(lastOp.events)
    /\ Cardinality(meshInstances[1]._shader) = 2
    /\ meshInstances[1].keyDepth # GetDepthKey(meshInstances[1])

\* the casters a pass drew on a face, in the order it drew them
RECURSIVE DrawnOnFace(_, _)
DrawnOnFace(events, face) ==
    IF events = <<>> THEN <<>>
    ELSE LET rest == DrawnOnFace(SubSeq(events, 1, Len(events) - 1), face)
             e == events[Len(events)]
         IN  IF e[1] = "draw" /\ e[2] = face THEN Append(rest, e[3]) ELSE rest

\* a list of casters goes by the depth key: skinned casters first, then by
\* the channel of the opacity map
OrderedByDepthKey(list) ==
    \A i, j \in 1..Len(list) :
        i < j => GetDepthKey(meshInstances[list[i]]) >= GetDepthKey(meshInstances[list[j]])

\* C22: after a cull the list of visible casters of every face of the light
\* goes by the depth key (10 for a skin plus the id 1..4 of the opacity map
\* channel), and a render draws the casters of a face in the order of its list
C22_VisibleOrderedByDepthKey ==
    /\ lastOp.op \in {"cullLocal", "cullDirectional"}
          => \A f \in 1..NumShadowFaces(light) :
                OrderedByDepthKey(renderData[f].visibleCasters)
    /\ (lastOp.op = "render" /\ lastOp.entered /\ ~lastOp.threw)
          => \A f \in 1..NumShadowFaces(light) :
                DrawnOnFace(lastOp.events, f) = renderData[f].visibleCasters

\* how often a caster is in a list
Occurrences(list, id) == Cardinality({ k \in 1..Len(list) : list[k] = id })

\* the caster passes the test of cullShadowCasters for the camera of a face
PassesCull(mi, id, f) ==
    ~mi[id].cull \/ IsVisible(mi[id], renderData'[f].shadowCamera.frustum)

\* C26: a cull leaves in the visible list of every face of the light the
\* casters of the list it was called with that are not to be culled or are
\* visible to the camera of the face, each as often as it is in that list,
\* and nothing else; the casters in a visible list have visibleThisFrame
\* set and every other caster is as it was
C26_VisibleExactlyKept ==
    [][ lastOp'.op \in {"cullLocal", "cullDirectional"}
        => LET faces == 1..NumShadowFaces(light')
           IN  /\ \A f \in faces : \A id \in DOMAIN meshInstances :
                     Occurrences(renderData'[f].visibleCasters, id) =
                         IF PassesCull(meshInstances, id, f)
                         THEN Occurrences(lastOp'.drawCalls, id) ELSE 0
               /\ \A f \in faces :
                     Len(renderData'[f].visibleCasters) =
                         Cardinality({ k \in 1..Len(lastOp'.drawCalls) :
                                         PassesCull(meshInstances, lastOp'.drawCalls[k], f) })
               /\ \A id \in DOMAIN meshInstances :
                     meshInstances'[id] =
                         IF \E f \in faces :
                                Occurrences(renderData'[f].visibleCasters, id) > 0
                         THEN [meshInstances[id] EXCEPT !.visibleThisFrame = TRUE]
                         ELSE meshInstances[id] ]_vars

\* a cull with two casters after a cull in the same frame that had left three
\* entries in the visible list: the list has the two casters and no more
C26_Witness ==
    /\ lastOp.op \in {"cullLocal", "cullDirectional"}
    /\ lastOp.drawCalls = <<1, 2>>
    /\ ~meshInstances[3].cull
    /\ meshInstances[3].visibleThisFrame
    /\ Len(renderData[1].visibleCasters) = 2
    /\ Occurrences(renderData[1].visibleCasters, 3) = 0

---------------------------------------------------------------------------
(* Claim on the shader slot of the shadow pass, checked under SpecState *)

\* C23: the slot a render caches the shadow shader of a caster in,
\* SHADER_SHADOW + shadowType + lightType * SHADOW_COUNT, is the slot of no
\* other pair of a shadow type in 0..5 and a light type, and is none of
\* SHADER_FORWARD, SHADER_FORWARDHDR, SHADER_DEPTH and SHADER_PICK
C23_ShadowSlotsApart ==
    (lastOp.op = "render" /\ lastOp.entered /\ ~lastOp.threw)
        => /\ \A t \in LightTypes, st \in ShadowTypes :
                 SHADER_SHADOW + st + t * SHADOW_COUNT = ShadowShaderSlot(light)
                     => (t = light._type /\ st = light._shadowType)
           /\ \A id \in DrawnCasters(lastOp.events) :
                 /\ ShadowShaderSlot(light) \in meshInstances[id]._shader
                 /\ meshInstances[id]._shader
                        \cap {SHADER_FORWARD, SHADER_FORWARDHDR, SHADER_DEPTH, SHADER_PICK} = {}

---------------------------------------------------------------------------
(* Claims on the shadow cameras of the cascades, checked under SpecCascade *)

\* the position and far clip cullDirectional gives the shadow camera of a
\* cascade from the light, the viewer and the casters visible in the
\* cascade, with nothing left over from an earlier cascade or call
OwnDepthFit(f) ==
    LET rot == RotateLocalMinus90X(light.rotation)
        near == CascadeNear(light, camera._nearClip, f - 1)
        far == CascadeFar(light, f - 1)
        radius == SliceRadius(camera, near, far)
        farPos == VAdd(SnapCenter(light, rot, SliceCenter(camera, near, far), radius),
                       VScale(rot.z, FarAway * Unit))
        box == VisibleAabb(meshInstances, renderData[f].visibleCasters, DefaultAabb)
        depthRange == GetDepthRange(farPos, rot, box.min, box.max)
    IN  [ position |-> VAdd(farPos, VScale(rot.z, depthRange.max + Unit \div 10)),
          farClip |-> depthRange.max - depthRange.min + (2 * Unit) \div 10 ]

\* C24: after cullDirectional the position and the far clip of the shadow
\* camera of every cascade are those that follow from the light, the viewer
\* and the casters visible in that cascade alone, also when none is visible
C24_DepthFitFromOwnCasters ==
    lastOp.op = "cullDirectional"
        => \A f \in Cascades :
              /\ renderData[f].shadowCamera.position = OwnDepthFit(f).position
              /\ renderData[f].shadowCamera.farClip = OwnDepthFit(f).farClip

\* C25: the slices cullDirectional cuts the viewer's frustum into follow on
\* one another: the first starts at the near clip of the viewer, every later
\* one starts where the one before it ends, each ends beyond its start, and
\* the last ends at the shadow distance of the light
C25_SlicesContiguous ==
    lastOp.op = "cullDirectional"
        => /\ lastOp.slices[1].near = camera._nearClip
           /\ \A f \in Cascades : lastOp.slices[f].near < lastOp.slices[f].far
           /\ \A f \in Cascades \ {1} : lastOp.slices[f].near = lastOp.slices[f - 1].far
           /\ lastOp.slices[light.numCascades].far = light.shadowDistance

\* a light with three cascades was culled with casters in its cascades
C25_Witness ==
    /\ lastOp.op = "cullDirectional"
    /\ light.numCascades = 3
    /\ lastOp.slices[2].near > camera._nearClip
    /\ lastOp.slices[3].near > lastOp.slices[2].near
    /\ renderData[1].visibleCasters # <<>>
    /\ renderData[3].visibleCasters # <<>>

\* how far in front of a camera the corners of a box are
Depths(cam, box) ==
    { 0 - ToView(cam.position, cam.rotation, c)[3] : c \in AabbCorners(box) }

\* C27: after cullDirectional, the shadow camera of every cascade with
\* visible casters is 0.1 in front of the nearest corner of the box of the
\* visible casters, its far clip is the depth of that box plus 0.2, and every
\* visible caster is between its near and far planes
C27_DepthRangeTight ==
    lastOp.op = "cullDirectional"
        => \A f \in Cascades :
              renderData[f].visibleCasters # <<>>
                  => LET cam == renderData[f].shadowCamera
                         list == renderData[f].visibleCasters
                         box == VisibleAabb(meshInstances, list, DefaultAabb)
                         ds == Depths(cam, box)
                     IN  /\ SetMin(ds) = Unit \div 10
                         /\ cam.farClip = (SetMax(ds) - SetMin(ds)) + (2 * Unit) \div 10
                         /\ \A k \in 1..Len(list) :
                               \A d \in Depths(cam, meshInstances[list[k]].aabb) :
                                   cam.nearClip < d /\ d < cam.farClip

\* a cascade with two visible casters, each one unit deep as the light sees
\* them, was culled: the far clip of its camera is 1.2
C27_Witness ==
    /\ lastOp.op = "cullDirectional"
    /\ \E f \in Cascades :
          /\ Len(renderData[f].visibleCasters) = 2
          /\ renderData[f].shadowCamera.nearClip = 0
          /\ renderData[f].shadowCamera.farClip = Unit + (2 * Unit) \div 10

\* the centre of the slice of a cascade before it is snapped
UnsnappedCenter(f) == SliceCenter(camera, lastOp.slices[f].near, lastOp.slices[f].far)

\* C28: the snapped centre of every cascade, projected on the right and on
\* the up axis of the light, is a whole number of grid cells
\* radius / (0.25 * resolution), is not below the projection of the unsnapped
\* centre and is less than one cell above it; along the direction of the
\* light it is where the unsnapped centre is; and the shadow camera is on
\* the line through the snapped centre along that direction
C28_CenterSnappedUp ==
    lastOp.op = "cullDirectional"
        => \A f \in Cascades :
              LET rot == RotateLocalMinus90X(light.rotation)
                  radius == SliceRadius(camera, lastOp.slices[f].near, lastOp.slices[f].far)
                  res == light._shadowResolution
                  c == lastOp.slices[f].center
                  c0 == UnsnappedCenter(f)
              IN  /\ \A axis \in {NodeRight(rot), NodeUp(rot)} :
                        /\ (Dot(c, axis) * res) % (4 * radius) = 0
                        /\ Dot(c, axis) >= Dot(c0, axis)
                        /\ (Dot(c, axis) - Dot(c0, axis)) * res < 4 * radius
                        /\ Dot(renderData[f].shadowCamera.position, axis) = Dot(c, axis)
                  /\ Dot(c, NodeForward(rot)) = Dot(c0, NodeForward(rot))

\* the viewer stands off the grid and the centre of a cascade was moved
C28_Witness ==
    /\ lastOp.op = "cullDirectional"
    /\ \E f \in Cascades :
          LET rot == RotateLocalMinus90X(light.rotation)
          IN  /\ Dot(lastOp.slices[f].center, NodeRight(rot))
                     > Dot(UnsnappedCenter(f), NodeRight(rot))
              /\ Dot(lastOp.slices[f].center, NodeUp(rot))
                     > Dot(UnsnappedCenter(f), NodeUp(rot))

---------------------------------------------------------------------------
(* Claim on the clear flag of the shadow camera, checked under SpecState *)

\* C29: in a pass the shadow camera of every face clears its color buffer
\* exactly when the render state of the pass writes color
C29_ClearAgreesWithColorWrite ==
    (lastOp.op = "render" /\ lastOp.entered /\ ~lastOp.threw)
        => \A f \in 1..lastOp.faceCount :
              renderData[f].shadowCamera.clearColorBuffer
                  <=> lastOp.state.colorWrite = <<TRUE, TRUE, TRUE, TRUE>>

---------------------------------------------------------------------------
(* Claim on the weights of a blur shader, checked under SpecBlur *)

\* C30: for every Gaussian blur shader made for a filter size above 1 there
\* is a weight array for that size, and it has as many entries as the
\* shader has samples (SAMPLES is the filter size)
C30_WeightsMatchSamples ==
    \A key \in blurVsmShader :
        (key[2] = BLUR_GAUSSIAN /\ key[3] > 1)
            => /\ key[3] \in DOMAIN blurVsmWeights
               /\ Len(blurVsmWeights[key[3]]) = key[3]

=============================================================================
